---- MODULE Spec2Model ----
(***************************************************************************)
(* A model of conx's Network (src/conx/network.py) and of the graph        *)
(* helpers of src/conx/utils.py: the layer connection graph, the           *)
(* topological sort, bank ordering and compile, the sub-graph cache of     *)
(* propagate_from, and level assignment.                                   *)
(*                                                                         *)
(* Layers are identified by their names, which are the integers of Names;  *)
(* the integer order stands for Python's string order of the names.        *)
(* Objects of the tensor engine (Keras) are opaque: every constructor call *)
(* yields an object with a fresh id.  A tensor records the transformation  *)
(* that made it and the ids of the tensors it was applied to; a Model      *)
(* records its input tensor ids and its output tensors.  None is id 0, and *)
(* the engine raises when it is handed None as an operand.                 *)
(***************************************************************************)
EXTENDS Integers, Sequences, FiniteSets, TLC

\* Bounds of the model.
MaxLayers == 3
MaxConnects == 3
MaxCompiles == 2
MaxBuilds == 2
MaxStart == 2
\* The builds allowed where compile runs beside the sub-graph cache.
MaxBuildsBesideCompile == 1
MaxSaves == 1
\* The longest list of sizes the constructor is given, and the sizes.
MaxSizes == 12
Shapes == {1, 2}
\* The calls of topological_sort two threads make between them.
MaxSorts == 2
\* The threads.
Procs == {1, 2}
\* The SIGINTs delivered while one with-block runs.
MaxSigints == 3

\* The layer names there are: one more than the calls of the operations
\* below use, for the networks of one more layer.
MaxNames == MaxLayers + 1
Names == 1..MaxNames
\* The names the calls are made with.
ArgNames == 1..MaxLayers
\* The connections of the networks of one more layer.
MaxConnectsWide == MaxConnects + 1
\* Python's None where a layer name is expected.
NoName == 0

VARIABLES
    layers,                 \* self.layers: the layers in the order added
    layer_dict,             \* self.layer_dict: the registered names
    incoming_connections,   \* layer.incoming_connections, per layer
    outgoing_connections,   \* layer.outgoing_connections, per layer
    visited,                \* layer.visited, per layer
    num_input_layers,       \* self.num_input_layers (Unset until connect)
    num_target_layers,      \* self.num_target_layers (Unset until connect)
    input_bank_order,       \* self.input_bank_order
    output_bank_order,      \* self.output_bank_order
    banks_set,              \* whether the two bank attributes exist yet
    k,                      \* layer.k, per layer
    input_names,            \* layer.input_names, per layer
    layer_model,            \* layer.model, per layer
    model,                  \* self.model
    prop_from_dict,         \* self.prop_from_dict
    next_id,                \* the id of the next engine object
    ncompiles,              \* number of compile runs so far
    nbuilds,                \* number of sub-graph builds so far
    nsaves,                 \* number of save calls so far
    nets,                   \* a network from the constructor, and one by hand
    sorters,                \* per thread, the call it has in flight
    nsorts,                 \* number of calls of the two threads so far
    interrupt,              \* the with-block of train and the signal handler
    ret                     \* the last call: its name, arguments and result

vars == <<layers, layer_dict, incoming_connections, outgoing_connections,
          visited, num_input_layers, num_target_layers, input_bank_order,
          output_bank_order, banks_set, k, input_names, layer_model, model,
          prop_from_dict, next_id, ncompiles, nbuilds, nsaves, nets, sorters,
          nsorts, interrupt, ret>>

graph_vars == <<layers, layer_dict, incoming_connections, outgoing_connections,
                num_input_layers, num_target_layers>>
compile_vars == <<input_bank_order, output_bank_order, banks_set, k,
                  input_names, layer_model, model, ncompiles>>
cache_vars == <<prop_from_dict, nbuilds>>
\* What the operations on the network itself leave alone.
aux_vars == <<nsaves, nets, sorters, nsorts, interrupt>>
\* The network the operations above act on.
net_vars == <<layers, layer_dict, incoming_connections, outgoing_connections,
             visited, num_input_layers, num_target_layers, input_bank_order,
             output_bank_order, banks_set, k, input_names, layer_model, model,
             prop_from_dict, next_id, ncompiles, nbuilds, nsaves, ret>>

----------------------------------------------------------------------------
\* Values

\* An attribute that has not been assigned yet.
Unset == -1

\* Engine operations recorded in a tensor.
InputOp == 0
ModelOp == -1

\* None where a tensor (layer.k) is expected.
NoK == [id |-> 0, op |-> 0, args |-> <<>>]
\* None where a Model is expected.
NoModel == [id |-> 0, inputs |-> <<>>, outputs |-> <<>>]

Tensor(id, op, args) == [id |-> id, op |-> op, args |-> args]
Model(id, inputs, outputs) == [id |-> id, inputs |-> inputs, outputs |-> outputs]

Range(s) == {s[i] : i \in DOMAIN s}
Reverse(s) == [i \in 1..Len(s) |-> s[Len(s) + 1 - i]]
Ids(ts) == [i \in 1..Len(ts) |-> ts[i].id]

\* list.index(x), 0-based; Unset when x is not in the list (ValueError).
Index(s, x) ==
    IF x \in Range(s)
    THEN (CHOOSE i \in 1..Len(s) : s[i] = x /\ \A j \in 1..(i - 1) : s[j] # x) - 1
    ELSE Unset

RECURSIVE Flatten(_)
Flatten(ss) == IF ss = <<>> THEN <<>> ELSE Head(ss) \o Flatten(Tail(ss))

NoLevels == [n \in Names |-> Unset]

\* What pickle.dump is handed by save: the argument save_all, the id of
\* self.model, the layers that hold a tensor or a Model, and the keys of
\* prop_from_dict; before any save, nothing.
NoDump == [save_all |-> FALSE, model |-> 0, layer_handles |-> {}, cache_keys |-> {}]

\* The record kept of the last call: op its name, a, b and arg its arguments
\* (of add and of a connect that returned, the graph shows them),
\* ok whether it returned (FALSE: it raised), handle the Model it found or
\* built, seq, levels and rows its result, built whether a sub-graph build
\* ran, re whether the network was compiled before, again whether the call
\* before was the same request and returned, dump what save serialized.
\* Before the with statement of train.  pc is the statement of the main
\* thread and frames the statements of the calls of handler above it;
\* installed is the handler of SIGINT; interrupted and released are the
\* attributes of the _InterruptHandler; entered tells that __enter__
\* returned and raising that an exception is leaving the block; restores
\* counts the calls signal.signal(self.sig, self.original_handler), and
\* sigints, by_handler and by_original the signals delivered and who
\* handled them.
NoInterrupt ==
    [pc |-> "out", frames |-> <<>>, installed |-> "original",
     interrupted |-> FALSE, released |-> FALSE, entered |-> FALSE,
     raising |-> FALSE, restores |-> 0, sigints |-> 0, by_handler |-> 0,
     by_original |-> 0]

\* A thread with no call in flight.  Of a call: the operation and its
\* layer_name, the start list, the position i of the loop over it, the frames
\* of visit, the stack, the list returned, the position at of the caller's
\* loop, how often visit was called on each layer and how often the caller's
\* loop came to it, whether no other call was in flight with it, and whether
\* the caller's loop raised.
NoSorter ==
    [pc |-> "idle", op |-> "none", a |-> NoName, start |-> <<>>, i |-> 0,
     frames |-> <<>>, stack |-> <<>>, result |-> <<>>, at |-> 0,
     visits |-> [n \in Names |-> 0], touched |-> [n \in Names |-> 0],
     alone |-> TRUE, raised |-> FALSE]

\* A network whose layers are named by strings: its layer list, its
\* registered names, the two connection lists of every layer, and whether a
\* call on it raised.  This one has no layers.
EmptyNet ==
    [layers |-> <<>>, layer_dict |-> {}, outgoing_connections |-> <<>>,
     incoming_connections |-> <<>>, raised |-> FALSE]

\* No network has been constructed from sizes yet.
NoNets == [pc |-> "none", sizes |-> <<>>, built |-> EmptyNet, hand |-> EmptyNet]

Ret0 ==
    [op |-> "init", a |-> NoName, b |-> NoName, arg |-> <<>>, ok |-> TRUE,
     handle |-> 0, seq |-> <<>>, built |-> FALSE, re |-> FALSE, again |-> FALSE,
     levels |-> NoLevels, rows |-> <<>>, dump |-> NoDump]

----------------------------------------------------------------------------
\* Layer.kind, from the lengths of the two connection lists.
kind(layer) ==
    IF incoming_connections[layer] = <<>> /\ outgoing_connections[layer] = <<>>
    THEN "unconnected"
    ELSE IF incoming_connections[layer] # <<>> /\ outgoing_connections[layer] # <<>>
    THEN "hidden"
    ELSE IF incoming_connections[layer] # <<>>
    THEN "output"
    ELSE "input"

\* kind, for connection lists that are not the current ones.
kind_of(inc, out, layer) ==
    IF inc[layer] = <<>> /\ out[layer] = <<>> THEN "unconnected"
    ELSE IF inc[layer] # <<>> /\ out[layer] # <<>> THEN "hidden"
    ELSE IF inc[layer] # <<>> THEN "output"
    ELSE "input"

----------------------------------------------------------------------------
\* utils.topological_sort and utils.visit

RECURSIVE visit(_, _)
RECURSIVE visit_outgoing(_, _, _)
RECURSIVE sort_start(_, _, _)

\* The loop of visit over layer.outgoing_connections, from position i.
visit_outgoing(layer, i, st) ==
    IF i > Len(outgoing_connections[layer]) THEN st
    ELSE LET outgoing_layer == outgoing_connections[layer][i]
         IN visit_outgoing(layer, i + 1,
                IF st.visited[outgoing_layer] THEN st ELSE visit(outgoing_layer, st))

visit(layer, st) ==
    LET marked == [st EXCEPT !.visited[layer] = TRUE]
        done == visit_outgoing(layer, 1, marked)
    IN [done EXCEPT !.stack = Append(@, layer)]

\* The loop of topological_sort over the start layers, from position i.
sort_start(start, i, st) ==
    IF i > Len(start) THEN st
    ELSE sort_start(start, i + 1,
            IF st.visited[start[i]] THEN st ELSE visit(start[i], st))

\* The bug of returning the stack as visit left it.
finish_stack_unreversed(stack) == stack

\* stack.reverse()
finish_stack(stack) == Reverse(stack)

\* topological_sort(net, start): the marks it leaves and the list it returns.
topological_sort(start) ==
    LET reset == [n \in Names |-> IF n \in Range(layers) THEN FALSE ELSE visited[n]]
        st == sort_start(start, 1, [visited |-> reset, stack |-> <<>>])
    IN [visited |-> st.visited, stack |-> finish_stack(st.stack)]

----------------------------------------------------------------------------
\* Network.__init__ with no sizes.
Init ==
    /\ layers = <<>>
    /\ layer_dict = {}
    /\ incoming_connections = [n \in Names |-> <<>>]
    /\ outgoing_connections = [n \in Names |-> <<>>]
    /\ visited = [n \in Names |-> FALSE]
    /\ num_input_layers = Unset
    /\ num_target_layers = Unset
    /\ input_bank_order = <<>>
    /\ output_bank_order = <<>>
    /\ banks_set = FALSE
    /\ k = [n \in Names |-> NoK]
    /\ input_names = [n \in Names |-> <<>>]
    /\ layer_model = [n \in Names |-> NoModel]
    /\ model = NoModel
    /\ prop_from_dict = [key \in Names \X Names |-> NoModel]
    /\ next_id = 1
    /\ ncompiles = 0
    /\ nbuilds = 0
    /\ nsaves = 0
    /\ nets = NoNets
    /\ sorters = [p \in Procs |-> NoSorter]
    /\ nsorts = 0
    /\ interrupt = NoInterrupt
    /\ ret = Ret0

\* A check of add that lets every name through.
duplicate_layer_name_never(name) == FALSE

\* if layer.name in self.layer_dict
duplicate_layer_name(name) == name \in layer_dict

\* Network.add(layer), layer.name = name.  A name is an identity only, so the
\* layers are named in the order they are added: a call names a registered
\* layer (a duplicate) or the first unused name.
Add(name) ==
    /\ name <= Len(layers) + 1
    /\ IF duplicate_layer_name(name)
       THEN /\ ret' = [Ret0 EXCEPT !.op = "add", !.ok = FALSE]
            /\ UNCHANGED <<layers, layer_dict>>
       ELSE /\ layers' = Append(layers, name)
            /\ layer_dict' = layer_dict \cup {name}
            /\ ret' = [Ret0 EXCEPT !.op = "add"]
    /\ UNCHANGED <<incoming_connections, outgoing_connections, visited,
                   num_input_layers, num_target_layers, next_id>>
    /\ UNCHANGED compile_vars
    /\ UNCHANGED cache_vars
    /\ UNCHANGED aux_vars

\* The number of connections made so far.
NumConnections ==
    LET RECURSIVE total(_)
        total(S) == IF S = {} THEN 0
                    ELSE LET n == CHOOSE x \in S : TRUE
                         IN Len(outgoing_connections[n]) + total(S \ {n})
    IN total(Names)

\* A connect that appends to the outgoing list only.
connect_pair_outgoing_only(c, from, to) ==
    [out |-> [c.out EXCEPT ![from] = Append(@, to)],
     inc |-> c.inc]

\* The two appends of connect, on the connection lists c.
connect_pair(c, from, to) ==
    [out |-> [c.out EXCEPT ![from] = Append(@, to)],
     inc |-> [c.inc EXCEPT ![to] = Append(@, from)]]

\* A loop that stops one pair short of the end of self.layers.
RECURSIVE connect_chain_short(_, _)
connect_chain_short(c, i) ==
    IF i > Len(layers) - 2 THEN c
    ELSE connect_chain_short(connect_pair(c, layers[i], layers[i + 1]), i + 1)

\* connect() without arguments: the loop over range(len(self.layers) - 1).
RECURSIVE connect_chain(_, _)
connect_chain(c, i) ==
    IF i > Len(layers) - 1 THEN c
    ELSE connect_chain(connect_pair(c, layers[i], layers[i + 1]), i + 1)

\* The number of layers of self.layers of the given kind, under lists c.
count_kind(c, kd) ==
    Cardinality({i \in 1..Len(layers) : kind_of(c.inc, c.out, layers[i]) = kd})

\* The arguments of a connect call: two names, or none.
ConnectArgs == (ArgNames \X ArgNames) \cup {<<NoName, NoName>>}

\* A check of connect that looks at the first name only.
unknown_layer_from_only(from, to) == from \notin layer_dict

\* The two checks of connect that raise 'unknown layer'.
unknown_layer(from, to) == from \notin layer_dict \/ to \notin layer_dict

\* Network.connect(from_layer_name, to_layer_name), on a network that is to
\* hold max_connects connections at most.
ConnectWithin(max_connects, from, to) ==
    LET c0 == [out |-> outgoing_connections, inc |-> incoming_connections]
    IN
    /\ IF from = NoName /\ to = NoName
       THEN LET c == connect_chain(c0, 1)
            IN /\ NumConnections + (IF Len(layers) > 0 THEN Len(layers) - 1 ELSE 0)
                      <= max_connects
               /\ outgoing_connections' = c.out
               /\ incoming_connections' = c.inc
               /\ IF Len(layers) > 1
                  THEN /\ num_input_layers' = count_kind(c, "input")
                       /\ num_target_layers' = count_kind(c, "output")
                  ELSE UNCHANGED <<num_input_layers, num_target_layers>>
               /\ ret' = [Ret0 EXCEPT !.op = "connect_all"]
       ELSE IF unknown_layer(from, to)
       THEN /\ ret' = [Ret0 EXCEPT !.op = "connect", !.a = from, !.b = to,
                                   !.ok = FALSE]
            /\ UNCHANGED <<incoming_connections, outgoing_connections,
                           num_input_layers, num_target_layers>>
       ELSE LET c == connect_pair(c0, from, to)
            IN /\ NumConnections < max_connects
               /\ outgoing_connections' = c.out
               /\ incoming_connections' = c.inc
               /\ num_input_layers' = count_kind(c, "input")
               /\ num_target_layers' = count_kind(c, "output")
               /\ ret' = [Ret0 EXCEPT !.op = "connect"]
    /\ UNCHANGED <<layers, layer_dict, visited, next_id>>
    /\ UNCHANGED compile_vars
    /\ UNCHANGED cache_vars
    /\ UNCHANGED aux_vars

Connect(from, to) == ConnectWithin(MaxConnects, from, to)

\* connect on the networks of one more layer and one more connection.
ConnectWide(from, to) == ConnectWithin(MaxConnectsWide, from, to)
ConnectArgsWide == (Names \X Names) \cup {<<NoName, NoName>>}

\* The lists of at most MaxStart registered layers.
StartLists ==
    UNION {[1..n -> layer_dict] : n \in 0..MaxStart}

\* utils.topological_sort(net, start), called on its own.
TopologicalSort(start) ==
    \E r \in {topological_sort(start)} :
       /\ visited' = r.visited
       /\ ret' = [Ret0 EXCEPT !.op = "topological_sort", !.arg = start,
                              !.seq = r.stack]
       /\ UNCHANGED graph_vars
       /\ UNCHANGED compile_vars
       /\ UNCHANGED cache_vars
       /\ UNCHANGED aux_vars
       /\ UNCHANGED next_id

----------------------------------------------------------------------------
\* Python's sorted() on tuples (list of integers, name)

\* x < y on lists of integers.
RECURSIVE list_less(_, _)
list_less(x, y) ==
    IF x = <<>> THEN y # <<>>
    ELSE IF y = <<>> THEN FALSE
    ELSE IF Head(x) # Head(y) THEN Head(x) < Head(y)
    ELSE list_less(Tail(x), Tail(y))

\* x < y on tuples (key, name).
tuple_less(x, y) ==
    list_less(x.key, y.key) \/ (x.key = y.key /\ x.name < y.name)

\* sorted(s), stable.
RECURSIVE sorted(_)
sorted(s) ==
    IF s = <<>> THEN <<>>
    ELSE LET t == sorted(SubSeq(s, 1, Len(s) - 1))
             x == s[Len(s)]
             n == Cardinality({i \in 1..Len(t) : ~tuple_less(x, t[i])})
         IN SubSeq(t, 1, n) \o <<x>> \o SubSeq(t, n + 1, Len(t))

----------------------------------------------------------------------------
\* Network.compile and its helpers

\* The names of the layers of self.layers of the given kind, in reverse.
bank_order_reversed(kd) ==
    Reverse(SelectSeq(layers, LAMBDA layer : kind(layer) = kd))

\* The names of the layers of the given kind, added to the bank order that
\* is there already.
bank_order_appending(kd) ==
    (IF kd = "input" THEN input_bank_order ELSE output_bank_order)
        \o SelectSeq(layers, LAMBDA layer : kind(layer) = kd)

\* [layer.name for layer in self.layers if layer.kind() == kd]
bank_order(kd) ==
    SelectSeq(layers, LAMBDA layer : kind(layer) = kd)

\* A raised exception, where a list of tensors was expected.
Raised == [ok |-> FALSE, ks |-> <<>>]

\* if self.num_target_layers == 1: layer_ks = layer_ks[0]
\* A single tensor is a list of one tensor to the engine.
unwrap_single(layer_ks, ntl) ==
    IF ntl = Unset THEN Raised
    ELSE IF ntl = 1
    THEN (IF layer_ks = <<>> THEN Raised ELSE [ok |-> TRUE, ks |-> <<layer_ks[1]>>])
    ELSE [ok |-> TRUE, ks |-> layer_ks]

\* Network._get_input_ks_in_order(layer_names), with bank order ibo and the
\* layers' tensors ks.
get_input_ks_in_order(layer_names, ibo, ks) ==
    IF \E i \in 1..Len(layer_names) : Index(ibo, layer_names[i]) = Unset
    THEN Raised
    ELSE LET pairs == [i \in 1..Len(layer_names) |->
                          [key |-> <<Index(ibo, layer_names[i])>>,
                           name |-> layer_names[i]]]
             sorted_pairs == sorted(pairs)
             sorted_layer_names == [i \in 1..Len(pairs) |-> sorted_pairs[i].name]
             layer_ks == [i \in 1..Len(pairs) |-> ks[sorted_layer_names[i]]]
         IN unwrap_single(layer_ks, num_target_layers)

\* Network._get_output_ks_in_order(), with bank order obo.
get_output_ks_in_order(obo, ks) ==
    unwrap_single([i \in 1..Len(obo) |-> ks[obo[i]]], num_target_layers)

\* Whether the engine accepts these tensors as operands.
EngineAccepts(ts) == \A i \in 1..Len(ts) : ts[i] # NoK

\* The end of the non-input branch of _build_intermediary_models: apply the
\* layer's functions to its merged inputs args, then build layer.model.
build_layer_model(bs, layer, args, ibo) ==
    LET t == Tensor(bs.nid, layer, args)
        bs1 == [bs EXCEPT !.k[layer] = t, !.nid = bs.nid + 1]
        input_ks == get_input_ks_in_order(bs1.input_names[layer], ibo, bs1.k)
    IN IF ~input_ks.ok \/ ~EngineAccepts(input_ks.ks)
       THEN [bs1 EXCEPT !.ok = FALSE]
       ELSE [bs1 EXCEPT !.layer_model[layer] = Model(bs1.nid, Ids(input_ks.ks), <<t>>),
                        !.nid = bs1.nid + 1]

\* [item for sublist in [incoming.input_names ...] for item in sublist]
merged_input_names(names_of, inc) ==
    Flatten([i \in 1..Len(inc) |-> names_of[inc[i]]])

\* The body of the loop of _build_intermediary_models for one layer.
build_layer(bs, layer, ibo) ==
    LET inc == incoming_connections[layer]
    IN
    IF kind(layer) = "input"
    THEN LET t == Tensor(bs.nid, InputOp, <<>>)
         IN [bs EXCEPT !.k[layer] = t,
                       !.input_names[layer] = <<layer>>,
                       !.layer_model[layer] = Model(bs.nid + 1, <<t.id>>, <<t>>),
                       !.nid = bs.nid + 2]
    ELSE IF Len(inc) = 0
    THEN [bs EXCEPT !.ok = FALSE]
    ELSE IF Len(inc) = 1
    THEN LET bs1 == [bs EXCEPT !.input_names[layer] = bs.input_names[inc[1]]]
         IN IF bs.k[inc[1]] = NoK
            THEN [bs1 EXCEPT !.ok = FALSE]
            ELSE build_layer_model(bs1, layer, <<bs.k[inc[1]].id>>, ibo)
    ELSE LET incoming_ks == [i \in 1..Len(inc) |-> bs.k[inc[i]]]
         IN IF ~EngineAccepts(incoming_ks)
            THEN [bs EXCEPT !.ok = FALSE]
            ELSE build_layer_model(
                     [bs EXCEPT !.input_names[layer] =
                                    merged_input_names(bs.input_names, inc)],
                     layer, Ids(incoming_ks), ibo)

\* The loop of _build_intermediary_models over sequence, from position i; it
\* ends at the first exception.
RECURSIVE build_sequence(_, _, _, _)
build_sequence(bs, sequence, i, ibo) ==
    IF i > Len(sequence) \/ ~bs.ok THEN bs
    ELSE build_sequence(build_layer(bs, sequence[i], ibo), sequence, i + 1, ibo)

\* Network._build_intermediary_models(), with bank order ibo.
build_intermediary_models(ibo) ==
    LET r == topological_sort(layers)
        bs == build_sequence([k |-> k, input_names |-> input_names,
                              layer_model |-> layer_model, nid |-> next_id,
                              ok |-> TRUE],
                             r.stack, 1, ibo)
    IN [visited |-> r.visited, bs |-> bs]

\* A head of compile that checks for an empty network only.
compile_rejects_empty_only == Len(layers) = 0

\* The checks at the head of compile.
compile_rejects ==
    \/ Len(layers) = 0
    \/ \E i \in 1..Len(layers) : kind(layers[i]) = "unconnected"

\* Network.compile() from the bank orders on: the new values of what it
\* assigns, and whether it returned (ok) or raised.
compile_body ==
    LET ibo == bank_order("input")
        obo == bank_order("output")
        b == build_intermediary_models(ibo)
        output_k_layers == get_output_ks_in_order(obo, b.bs.k)
        input_k_layers == get_input_ks_in_order(ibo, ibo, b.bs.k)
        ok == /\ b.bs.ok
              /\ output_k_layers.ok
              /\ input_k_layers.ok
              /\ EngineAccepts(output_k_layers.ks)
              /\ EngineAccepts(input_k_layers.ks)
    IN [ok |-> ok, ibo |-> ibo, obo |-> obo, visited |-> b.visited,
        k |-> b.bs.k, input_names |-> b.bs.input_names,
        layer_model |-> b.bs.layer_model,
        model |-> IF ok
                  THEN Model(b.bs.nid, Ids(input_k_layers.ks), output_k_layers.ks)
                  ELSE model,
        nid |-> IF ok THEN b.bs.nid + 1 ELSE b.bs.nid]

\* The state change of a compile run, recorded as call op.
CompileRun(op) ==
    IF compile_rejects
    THEN /\ ret' = [Ret0 EXCEPT !.op = op, !.ok = FALSE]
         /\ UNCHANGED <<visited, next_id>>
         /\ UNCHANGED compile_vars
    ELSE \E c \in {compile_body} :
            /\ ncompiles < MaxCompiles
            /\ ncompiles' = ncompiles + 1
            /\ input_bank_order' = c.ibo
            /\ output_bank_order' = c.obo
            /\ banks_set' = TRUE
            /\ visited' = c.visited
            /\ k' = c.k
            /\ input_names' = c.input_names
            /\ layer_model' = c.layer_model
            /\ model' = c.model
            /\ next_id' = c.nid
            /\ ret' = [Ret0 EXCEPT !.op = op, !.ok = c.ok,
                                   !.re = (model # NoModel),
                                   !.again = (ret.op = op /\ ret.ok),
                                   !.handle = c.model.id]

\* Network.compile()
Compile ==
    /\ CompileRun("compile")
    /\ UNCHANGED graph_vars
    /\ UNCHANGED cache_vars
    /\ UNCHANGED aux_vars

\* Network.reset()
Reset ==
    /\ IF model # NoModel
       THEN CompileRun("reset")
       ELSE /\ ret' = [Ret0 EXCEPT !.op = "reset"]
            /\ UNCHANGED <<visited, next_id>>
            /\ UNCHANGED compile_vars
    /\ UNCHANGED graph_vars
    /\ UNCHANGED cache_vars
    /\ UNCHANGED aux_vars

----------------------------------------------------------------------------
\* Network(name, *sizes), beside a network made by hand
\*
\* Here a layer name is the string itself, a sequence of characters, and a
\* network is a record of its layer list, its registered names and the two
\* connection lists of every layer; raised tells that a call raised.

Chars_input == <<"i", "n", "p", "u", "t">>
Chars_output == <<"o", "u", "t", "p", "u", "t">>
Chars_hidden == <<"h", "i", "d", "d", "e", "n">>
Digits == <<"0", "1", "2", "3", "4", "5", "6", "7", "8", "9">>

\* "%d" % index, for index >= 0.
RECURSIVE format_d(_)
format_d(index) ==
    IF index < 10 THEN <<Digits[index + 1]>>
    ELSE format_d(index \div 10) \o <<Digits[(index % 10) + 1]>>

\* A naming that leaves the index out of the hidden names.
autoname_unnumbered(index, sizes) ==
    IF index = 0 THEN Chars_input
    ELSE IF index = sizes - 1 THEN Chars_output
    ELSE Chars_hidden

\* utils.autoname(index, sizes)
autoname(index, sizes) ==
    IF index = 0 THEN Chars_input
    ELSE IF index = sizes - 1 THEN Chars_output
    ELSE IF sizes = 3 THEN Chars_hidden
    ELSE Chars_hidden \o format_d(index)

\* Layer(name, shape)
Layer(name, shape) == [name |-> name, shape |-> shape]

\* net.add(layer); a call after one that raised is never made.
net_add(net, layer) ==
    IF net.raised THEN net
    ELSE IF layer.name \in net.layer_dict THEN [net EXCEPT !.raised = TRUE]
    ELSE [net EXCEPT !.layers = Append(@, layer),
                     !.layer_dict = @ \cup {layer.name},
                     !.outgoing_connections = @ @@ (layer.name :> <<>>),
                     !.incoming_connections = @ @@ (layer.name :> <<>>)]

\* net.connect(from_layer_name, to_layer_name), with two names.
net_connect(net, from, to) ==
    IF net.raised THEN net
    ELSE IF from \notin net.layer_dict \/ to \notin net.layer_dict
    THEN [net EXCEPT !.raised = TRUE]
    ELSE [net EXCEPT !.outgoing_connections[from] = Append(@, to),
                     !.incoming_connections[to] = Append(@, from)]

\* net.connect(): the loop over range(len(self.layers) - 1), from i (0-based).
RECURSIVE net_connect_all(_, _)
net_connect_all(net, i) ==
    IF i >= Len(net.layers) - 1 THEN net
    ELSE net_connect_all(
             net_connect(net, net.layers[i + 1].name, net.layers[i + 2].name),
             i + 1)

\* The first loop of __init__: for i in range(len(sizes)), from i.
RECURSIVE init_add(_, _, _)
init_add(net, sizes, i) ==
    IF i >= Len(sizes) THEN net
    ELSE init_add(net_add(net, Layer(autoname(i, Len(sizes)), sizes[i + 1])),
                  sizes, i + 1)

\* The second loop of __init__: for i in range(len(sizes) - 1), from i.
RECURSIVE init_connect(_, _, _)
init_connect(net, sizes, i) ==
    IF i >= Len(sizes) - 1 THEN net
    ELSE init_connect(net_connect(net, autoname(i, Len(sizes)),
                                  autoname(i + 1, Len(sizes))),
                      sizes, i + 1)

\* Network.__init__(name, *sizes)
network_init(sizes) == init_connect(init_add(EmptyNet, sizes, 0), sizes, 0)

\* The size lists the constructor is called with.
SizeLists == UNION {[1..n -> Shapes] : n \in 1..MaxSizes}

\* The constructor calls left to make: one network is constructed.
ConstructArgs == IF nets.pc = "none" THEN SizeLists ELSE {}

\* built = Network(name, *sizes); hand = Network(name)
Construct(sizes) ==
    /\ nets.pc = "none"
    /\ nets' = [pc |-> "made", sizes |-> sizes, built |-> network_init(sizes),
                hand |-> EmptyNet]
    /\ UNCHANGED net_vars
    /\ UNCHANGED <<sorters, nsorts, interrupt>>

\* hand.add(Layer(autoname(i, n), sizes[i])), for the next i.
HandAdd ==
    /\ nets.pc = "made"
    /\ Len(nets.hand.layers) < Len(nets.sizes)
    /\ LET i == Len(nets.hand.layers)
       IN nets' = [nets EXCEPT !.hand =
                       net_add(@, Layer(autoname(i, Len(nets.sizes)),
                                        nets.sizes[i + 1]))]
    /\ UNCHANGED net_vars
    /\ UNCHANGED <<sorters, nsorts, interrupt>>

\* hand.connect(), once the layers are added.
HandConnect ==
    /\ nets.pc = "made"
    /\ Len(nets.hand.layers) = Len(nets.sizes)
    /\ nets' = [nets EXCEPT !.hand = net_connect_all(@, 0), !.pc = "done"]
    /\ UNCHANGED net_vars
    /\ UNCHANGED <<sorters, nsorts, interrupt>>

----------------------------------------------------------------------------
\* The structural operations, statement by statement
\*
\* A process runs one call at a time: utils.topological_sort on its own
\* ("topological_sort"), or one of its callers, which loop over the list it
\* returns: Network._build_intermediary_models ("build"),
\* Network._get_level_ordering ("levels") and the sub-graph build of
\* Network.propagate_from ("propagate_from").  The marks are the attribute
\* visited of the layers, which every call in flight reads and writes; the
\* stack, the loop positions and the recursion of visit are the call's own.
\* A frame of visit is [layer, j]: j = 0 before the mark is set, and
\* otherwise the position of the loop over layer.outgoing_connections.
\* The loop that resets the marks is one step.

\* for layer in net.layers: layer.visited = False, kept as they were.
reset_marks_never(vis) == vis

\* for layer in net.layers: layer.visited = False
reset_marks(vis) ==
    [n \in Names |-> IF n \in Range(layers) THEN FALSE ELSE vis[n]]

\* A visit that leaves the mark as it was.
visit_mark_never(vis, layer) == vis

\* layer.visited = True
visit_mark(vis, layer) == [vis EXCEPT ![layer] = TRUE]

\* The calls that can be made: the operation, its layer_name where it has
\* one, and the list of start layers it hands to topological_sort.
StepCalls ==
    {[op |-> "topological_sort", a |-> NoName, start |-> s] : s \in StartLists}
    \cup {[op |-> o, a |-> NoName, start |-> layers] : o \in {"build", "levels"}}
    \cup {[op |-> "propagate_from", a |-> n, start |-> outgoing_connections[n]] :
              n \in layer_dict}

\* No call of process p is in flight.
Idle(p) == sorters[p].pc = "idle"
InFlight(p) == sorters[p].pc \in {"sort", "loop"}
NoCallInFlight == \A p \in Procs : ~InFlight(p)
AllIdle == \A p \in Procs : Idle(p)

\* The call begins: the marks are reset and the stack is empty.
Begin(p, call) ==
    /\ Idle(p)
    /\ visited' = reset_marks(visited)
    /\ sorters' =
          [q \in Procs |->
              IF q = p
              THEN [NoSorter EXCEPT !.pc = "sort", !.op = call.op,
                                    !.a = call.a, !.start = call.start,
                                    !.i = 1, !.alone = NoCallInFlight]
              ELSE IF InFlight(q) THEN [sorters[q] EXCEPT !.alone = FALSE]
              ELSE sorters[q]]

\* One step of the loop 'for layer in layers' of topological_sort, and, when
\* the loop is over, stack.reverse() and the return to the caller.
SortStep(p) ==
    LET s == sorters[p]
    IN /\ s.pc = "sort"
       /\ s.frames = <<>>
       /\ IF s.i > Len(s.start)
          THEN /\ sorters' = [sorters EXCEPT ![p] =
                     [s EXCEPT !.result = finish_stack(s.stack),
                               !.pc = IF s.op = "topological_sort"
                                      THEN "done" ELSE "loop",
                               !.at = 1]]
               /\ UNCHANGED visited
          ELSE LET layer == s.start[s.i]
               IN /\ sorters' = [sorters EXCEPT ![p] =
                        IF visited[layer] THEN [s EXCEPT !.i = @ + 1]
                        ELSE [s EXCEPT !.i = @ + 1,
                                       !.frames = Append(@, [layer |-> layer, j |-> 0]),
                                       !.visits[layer] = @ + 1]]
                  /\ UNCHANGED visited

\* One statement of the innermost call of visit.
VisitStep(p) ==
    LET s == sorters[p]
        top == Len(s.frames)
        f == s.frames[top]
    IN /\ s.pc = "sort"
       /\ s.frames # <<>>
       /\ IF f.j = 0
          THEN /\ visited' = visit_mark(visited, f.layer)
               /\ sorters' = [sorters EXCEPT ![p].frames[top].j = 1]
          ELSE IF f.j > Len(outgoing_connections[f.layer])
          THEN /\ sorters' = [sorters EXCEPT ![p] =
                     [s EXCEPT !.stack = Append(@, f.layer),
                               !.frames = SubSeq(@, 1, top - 1)]]
               /\ UNCHANGED visited
          ELSE LET outgoing_layer == outgoing_connections[f.layer][f.j]
               IN /\ sorters' = [sorters EXCEPT ![p] =
                        IF visited[outgoing_layer]
                        THEN [s EXCEPT !.frames[top].j = @ + 1]
                        ELSE [s EXCEPT !.frames =
                                  Append([@ EXCEPT ![top].j = f.j + 1],
                                         [layer |-> outgoing_layer, j |-> 0]),
                                       !.visits[outgoing_layer] = @ + 1]]
                  /\ UNCHANGED visited

\* One pass of the caller's loop over the sorted list.  What the body does
\* to the layer is the engine's and is modelled with the operation itself;
\* here the body returns or raises.
LoopStep(p) ==
    LET s == sorters[p]
    IN /\ s.pc = "loop"
       /\ IF s.at > Len(s.result)
          THEN sorters' = [sorters EXCEPT ![p].pc = "done"]
          ELSE \E raises \in BOOLEAN :
                  sorters' = [sorters EXCEPT ![p] =
                     [s EXCEPT !.touched[s.result[s.at]] = @ + 1,
                               !.at = @ + 1,
                               !.raised = raises,
                               !.pc = IF raises THEN "done" ELSE "loop"]]
       /\ UNCHANGED visited

\* The caller takes the result.
Return(p) ==
    /\ sorters[p].pc = "done"
    /\ sorters' = [sorters EXCEPT ![p] = NoSorter]
    /\ UNCHANGED visited

\* What a step of a call leaves alone.
step_frame ==
    <<graph_vars, compile_vars, cache_vars, next_id, ret, nsaves, nets, interrupt>>

\* A call by the one thread of the program.
Call(call) == Begin(1, call) /\ UNCHANGED <<step_frame, nsorts>>
Step ==
    /\ SortStep(1) \/ VisitStep(1) \/ LoopStep(1)
    /\ UNCHANGED <<step_frame, nsorts>>
Returned == Return(1) /\ UNCHANGED <<step_frame, nsorts>>

\* A call of topological_sort on the whole layer list by one of two threads;
\* the second thread calls while a call of the first is in flight.
CallBeside(p) ==
    /\ nsorts < MaxSorts
    /\ nsorts' = nsorts + 1
    /\ p = 2 => InFlight(1)
    /\ Begin(p, [op |-> "topological_sort", a |-> NoName, start |-> layers])
    /\ UNCHANGED step_frame
StepBeside(p) ==
    /\ SortStep(p) \/ VisitStep(p)
    /\ UNCHANGED <<step_frame, nsorts>>
ReturnedBeside(p) == Return(p) /\ UNCHANGED <<step_frame, nsorts>>

\* add and connect, between calls.
AddBetween(name) == AllIdle /\ Add(name)
ConnectBetween(from, to) == AllIdle /\ Connect(from, to)

----------------------------------------------------------------------------
\* _InterruptHandler, statement by statement
\*
\* The with-block of Network.train runs in the main thread: __enter__, the
\* body, __exit__.  A SIGINT is delivered between two statements of whatever
\* runs, the handler function included, and is handled by the handler that
\* is installed then: by the function handler of __enter__, which runs as a
\* frame above the code it interrupted, or by the original handler, which
\* returns or raises KeyboardInterrupt.  An exception leaves every frame that
\* does not catch it; none here does.

\* signal.signal(self.sig, self.original_handler), left out.
release_signal_never(it) == it

\* signal.signal(self.sig, self.original_handler)
release_signal(it) ==
    [it EXCEPT !.installed = "original", !.restores = @ + 1]

\* KeyboardInterrupt reaches the statement of the main thread: inside
\* __enter__ the block is never entered, inside the body __exit__ is called,
\* inside __exit__ the rest of _release is skipped.
unwind(it) ==
    [it EXCEPT !.frames = <<>>,
               !.raising = TRUE,
               !.pc = IF it.pc = "body" THEN "release_if" ELSE "left"]

\* What the with statement and the signals leave alone.
interrupt_frame == <<net_vars, nets, sorters, nsorts>>

\* __enter__: interrupted, released and original_handler are set.
Enter ==
    /\ interrupt.pc = "out"
    /\ interrupt' = [interrupt EXCEPT !.pc = "install", !.interrupted = FALSE,
                                      !.released = FALSE]
    /\ UNCHANGED interrupt_frame

\* __enter__: signal.signal(self.sig, handler); return self.
Install ==
    /\ interrupt.pc = "install"
    /\ interrupt.frames = <<>>
    /\ interrupt' = [interrupt EXCEPT !.pc = "body", !.installed = "handler",
                                      !.entered = TRUE]
    /\ UNCHANGED interrupt_frame

\* The body of the with-block comes to its end or raises; __exit__ is called.
Body(raises) ==
    /\ interrupt.pc = "body"
    /\ interrupt.frames = <<>>
    /\ interrupt' = [interrupt EXCEPT !.pc = "release_if", !.raising = raises]
    /\ UNCHANGED interrupt_frame

\* One statement of _release, called by __exit__.
ExitStep ==
    /\ interrupt.frames = <<>>
    /\ \/ /\ interrupt.pc = "release_if"
          /\ interrupt' = [interrupt EXCEPT
                 !.pc = IF interrupt.released THEN "left" ELSE "release_signal"]
       \/ /\ interrupt.pc = "release_signal"
          /\ interrupt' = [release_signal(interrupt) EXCEPT !.pc = "release_set"]
       \/ /\ interrupt.pc = "release_set"
          /\ interrupt' = [interrupt EXCEPT !.pc = "left", !.released = TRUE]
    /\ UNCHANGED interrupt_frame

\* One statement of the innermost frame of handler(signum, frame).
HandlerStep ==
    LET top == Len(interrupt.frames)
        at == interrupt.frames[top]
        goto(it, to) == [it EXCEPT !.frames[top] = to]
    IN /\ interrupt.frames # <<>>
       /\ \/ /\ at = "release_if"
             /\ interrupt' = goto(interrupt, IF interrupt.released
                                             THEN "if_interrupted"
                                             ELSE "release_signal")
          \/ /\ at = "release_signal"
             /\ interrupt' = goto(release_signal(interrupt), "release_set")
          \/ /\ at = "release_set"
             /\ interrupt' = goto([interrupt EXCEPT !.released = TRUE],
                                  "if_interrupted")
          \/ /\ at = "if_interrupted"
             /\ interrupt' = IF interrupt.interrupted
                             THEN unwind(interrupt)
                             ELSE goto(interrupt, "set_interrupted")
          \/ /\ at = "set_interrupted"
             /\ interrupt' = [interrupt EXCEPT !.interrupted = TRUE,
                                               !.frames = SubSeq(@, 1, top - 1)]
       /\ UNCHANGED interrupt_frame

\* A SIGINT is delivered while the with statement runs.
Sigint(raises) ==
    /\ interrupt.pc \notin {"out", "left"}
    /\ interrupt.sigints < MaxSigints
    /\ IF interrupt.installed = "handler"
       THEN /\ ~raises
            /\ interrupt' = [interrupt EXCEPT
                   !.sigints = @ + 1,
                   !.by_handler = @ + 1,
                   !.frames = Append(@, "release_if")]
       ELSE LET it == [interrupt EXCEPT !.sigints = @ + 1,
                                        !.by_original = @ + 1]
            IN interrupt' = IF raises THEN unwind(it) ELSE it
    /\ UNCHANGED interrupt_frame

----------------------------------------------------------------------------
\* Network.save

\* Network._delete_intermediary_models(): the loop over self.layers.
delete_intermediary_models ==
    [k |-> [n \in Names |-> IF n \in Range(layers) THEN NoK ELSE k[n]],
     input_names |-> [n \in Names |-> IF n \in Range(layers) THEN <<>>
                                      ELSE input_names[n]],
     layer_model |-> [n \in Names |-> IF n \in Range(layers) THEN NoModel
                                      ELSE layer_model[n]]]

\* The handles left on the layers as they are: nothing is deleted.
keep_intermediary_models ==
    [k |-> k, input_names |-> input_names, layer_model |-> layer_model]

\* The layer attributes at pickle.dump: those left by
\* _delete_intermediary_models when save ran it (self.model and save_all).
attributes_at_dump(save_all) ==
    IF model # NoModel /\ save_all
    THEN delete_intermediary_models
    ELSE keep_intermediary_models

\* What pickle.dump(self, fp) is handed: self.model is None by then.
dump_of(save_all, at) ==
    [save_all |-> save_all,
     model |-> 0,
     layer_handles |-> {n \in Range(layers) :
                           at.k[n] # NoK \/ at.layer_model[n] # NoModel},
     cache_keys |-> {key \in Names \X Names : prop_from_dict[key] # NoModel}]

\* Whether pickle.dump may return: engine objects are not known to pickle
\* ("they don't pickle"), so with one in reach it may raise or return.
dump_returns(d) ==
    IF d.layer_handles = {} /\ d.cache_keys = {} THEN {TRUE} ELSE BOOLEAN

\* self._build_intermediary_models() in the finally clause of save, on the
\* layer attributes at.
rebuild_intermediary_models(at) ==
    LET r == topological_sort(layers)
        bs == build_sequence([k |-> at.k, input_names |-> at.input_names,
                              layer_model |-> at.layer_model, nid |-> next_id,
                              ok |-> TRUE],
                             r.stack, 1, input_bank_order)
    IN [visited |-> r.visited, bs |-> bs]

\* Network.save(foldername, save_all)
Save(save_all) ==
    /\ nsaves < MaxSaves
    /\ nsaves' = nsaves + 1
    /\ \E at \in {attributes_at_dump(save_all)} :
       \E d \in {dump_of(save_all, at)} :
       \E dumped \in dump_returns(d) :
          IF model # NoModel /\ save_all
          THEN \E b \in {rebuild_intermediary_models(at)} :
                  /\ k' = b.bs.k
                  /\ input_names' = b.bs.input_names
                  /\ layer_model' = b.bs.layer_model
                  /\ visited' = b.visited
                  /\ next_id' = b.bs.nid
                  /\ ret' = [Ret0 EXCEPT !.op = "save", !.dump = d,
                                         !.ok = (dumped /\ b.bs.ok)]
          ELSE /\ UNCHANGED <<k, input_names, layer_model, visited, next_id>>
               /\ ret' = [Ret0 EXCEPT !.op = "save", !.dump = d, !.ok = dumped]
    /\ UNCHANGED <<input_bank_order, output_bank_order, banks_set, model,
                   ncompiles>>
    /\ UNCHANGED graph_vars
    /\ UNCHANGED cache_vars
    /\ UNCHANGED <<nets, sorters, nsorts, interrupt>>

----------------------------------------------------------------------------
\* Network._get_level_ordering

\* The largest element of a non-empty set of integers.
Max(S) == CHOOSE x \in S : \A y \in S : y <= x

\* The level of a layer taken as the least level of its parents plus one.
layer_level_min(levels, layer) ==
    LET inc == incoming_connections[layer]
    IN IF inc = <<>> THEN 0
       ELSE (CHOOSE x \in {levels[inc[i]] : i \in 1..Len(inc)} :
                 \A i \in 1..Len(inc) : x <= levels[inc[i]]) + 1

\* The level of a layer taken as the level of its first parent plus one.
layer_level_first(levels, layer) ==
    LET inc == incoming_connections[layer]
    IN IF inc = <<>> THEN 0 ELSE levels[inc[1]] + 1

\* max([levels[lay.name] for lay in layer.incoming_connections] + [-1]) + 1
layer_level(levels, layer) ==
    LET inc == incoming_connections[layer]
    IN Max({levels[inc[i]] : i \in 1..Len(inc)} \cup {-1}) + 1

\* The first loop of _get_level_ordering over sequence, from position i.
\* A parent without a level yet is a KeyError.
RECURSIVE assign_levels(_, _, _)
assign_levels(lv, sequence, i) ==
    IF i > Len(sequence) \/ ~lv.ok THEN lv
    ELSE LET layer == sequence[i]
             inc == incoming_connections[layer]
         IN IF \E j \in 1..Len(inc) : lv.levels[inc[j]] = Unset
            THEN [lv EXCEPT !.ok = FALSE]
            ELSE assign_levels([lv EXCEPT !.levels[layer] = layer_level(lv.levels, layer)],
                               sequence, i + 1)

\* A row that holds the layers of every level up to i.
level_row_up_to(levels, i) ==
    LET layer_names == SelectSeq(layers, LAMBDA n : levels[n] # Unset /\ levels[n] <= i)
    IN [ok |-> TRUE, row |-> layer_names]

\* One row of the ordering: the layers of level i, sorted by the bank
\* positions of their input names.
level_row(levels, i) ==
    LET layer_names == SelectSeq(layers, LAMBDA n : levels[n] = i)
        inputs == [j \in 1..Len(layer_names) |->
                      [key |-> [m \in 1..Len(input_names[layer_names[j]]) |->
                                   IF input_bank_order # <<>>
                                   THEN Index(input_bank_order,
                                              input_names[layer_names[j]][m])
                                   ELSE 0],
                       name |-> layer_names[j]]]
        row == sorted(inputs)
    IN [ok |-> \A j \in 1..Len(inputs) : \A m \in 1..Len(inputs[j].key) :
                   inputs[j].key[m] # Unset,
        row |-> [j \in 1..Len(row) |-> row[j].name]]

\* Network._get_level_ordering(): the marks the sort leaves, the level map,
\* the rows, and whether it returned (ok) or raised.
get_level_ordering ==
    LET r == topological_sort(layers)
        lv == assign_levels([levels |-> NoLevels, ok |-> TRUE], r.stack, 1)
        assigned == {lv.levels[n] : n \in Names} \ {Unset}
        max_level == Max(assigned)
        rows == [i \in 1..(max_level + 1) |-> level_row(lv.levels, i - 1)]
        ok == /\ lv.ok
              /\ assigned # {}
              /\ banks_set
              /\ \A i \in 1..(max_level + 1) : rows[i].ok
    IN [visited |-> r.visited, ok |-> ok,
        levels |-> IF ok THEN lv.levels ELSE NoLevels,
        rows |-> IF ok THEN [i \in 1..(max_level + 1) |-> rows[i].row] ELSE <<>>]

GetLevelOrdering ==
    \E r \in {get_level_ordering} :
       /\ visited' = r.visited
       /\ ret' = [Ret0 EXCEPT !.op = "get_level_ordering", !.ok = r.ok,
                              !.levels = r.levels, !.rows = r.rows]
       /\ UNCHANGED graph_vars
       /\ UNCHANGED compile_vars
       /\ UNCHANGED cache_vars
       /\ UNCHANGED aux_vars
       /\ UNCHANGED next_id

----------------------------------------------------------------------------
\* Network.propagate_from

\* A lookup that never finds the pair.
cache_hit_never(prop_model) == FALSE

\* not (prop_model is None), for the result of prop_from_dict.get
cache_hit(prop_model) == prop_model # NoModel

\* The body of the loop over path for one layer, in a build from layer_name
\* with stand-in input input_k.
build_from_layer(st, layer_name, input_k, layer) ==
    LET cached == st.d[<<layer_name, layer>>]
    IN IF cached = NoModel
       THEN LET kk == Tensor(st.nid, layer, <<input_k.id>>)
            IN [d |-> [st.d EXCEPT ![<<layer_name, layer>>] =
                           Model(st.nid + 1, <<input_k.id>>, <<kk>>)],
                nid |-> st.nid + 2]
       ELSE \* k is the cached Model itself, wrapped in a new Model
            LET kk == Tensor(cached.id, ModelOp, cached.inputs)
            IN [d |-> [st.d EXCEPT ![<<layer_name, layer>>] =
                           Model(st.nid, <<input_k.id>>, <<kk>>)],
                nid |-> st.nid + 1]

\* The loop over path, from position i.
RECURSIVE build_from_path(_, _, _, _, _)
build_from_path(st, layer_name, input_k, path, i) ==
    IF i > Len(path) THEN st
    ELSE build_from_path(build_from_layer(st, layer_name, input_k, path[i]),
                         layer_name, input_k, path, i + 1)

\* A build whose path is the sort of all the layers.
build_from_all_layers(layer_name) ==
    LET r == topological_sort(layers)
        input_k == Tensor(next_id, InputOp, <<>>)
        d0 == [prop_from_dict EXCEPT ![<<layer_name, layer_name>>] =
                   Model(next_id + 1, <<input_k.id>>, <<input_k>>)]
        st == build_from_path([d |-> d0, nid |-> next_id + 2], layer_name,
                              input_k, r.stack, 1)
    IN [visited |-> r.visited, d |-> st.d, nid |-> st.nid]

\* The build of propagate_from for start layer_name: the marks the sort
\* leaves, the new prop_from_dict and the next free id.
build_from(layer_name) ==
    LET r == topological_sort(outgoing_connections[layer_name])
        input_k == Tensor(next_id, InputOp, <<>>)
        d0 == [prop_from_dict EXCEPT ![<<layer_name, layer_name>>] =
                   Model(next_id + 1, <<input_k.id>>, <<input_k>>)]
        st == build_from_path([d |-> d0, nid |-> next_id + 2], layer_name,
                              input_k, r.stack, 1)
    IN [visited |-> r.visited, d |-> st.d, nid |-> st.nid]

\* Network.propagate_from(layer_name, input, output_layer_names), with
\* output_layer_names the single name output_layer_name.  The call returns
\* the prediction of the Model it found; ret.handle records that Model.
PropagateFromWithin(max_builds, layer_name, output_layer_name) ==
    \E r0 \in {[Ret0 EXCEPT !.op = "propagate_from", !.a = layer_name,
                            !.b = output_layer_name,
                            !.again = /\ ret.op = "propagate_from"
                                      /\ ret.ok
                                      /\ ret.a = layer_name
                                      /\ ret.b = output_layer_name]} :
    /\ IF layer_name \notin layer_dict
       THEN /\ ret' = [r0 EXCEPT !.ok = FALSE]
            /\ UNCHANGED <<visited, next_id>>
            /\ UNCHANGED cache_vars
       ELSE LET prop_model == prop_from_dict[<<layer_name, output_layer_name>>]
            IN IF cache_hit(prop_model)
               THEN /\ ret' = [r0 EXCEPT !.handle = prop_model.id]
                    /\ UNCHANGED <<visited, next_id>>
                    /\ UNCHANGED cache_vars
               ELSE \E b \in {build_from(layer_name)} :
                    LET found == b.d[<<layer_name, output_layer_name>>]
                    IN /\ nbuilds < max_builds
                       /\ nbuilds' = nbuilds + 1
                       /\ visited' = b.visited
                       /\ prop_from_dict' = b.d
                       /\ next_id' = b.nid
                       /\ ret' = [r0 EXCEPT !.built = TRUE,
                                            !.ok = (found # NoModel),
                                            !.handle = found.id]
    /\ UNCHANGED graph_vars
    /\ UNCHANGED compile_vars
    /\ UNCHANGED aux_vars

PropagateFrom(layer_name, output_layer_name) ==
    PropagateFromWithin(MaxBuilds, layer_name, output_layer_name)

\* propagate_from where compile runs too.
PropagateFromBesideCompile(layer_name, output_layer_name) ==
    PropagateFromWithin(MaxBuildsBesideCompile, layer_name, output_layer_name)

Next ==
    \/ \E name \in ArgNames : Add(name)
    \/ \E args \in ConnectArgs : Connect(args[1], args[2])
    \/ \E start \in StartLists : TopologicalSort(start)
    \/ Compile
    \/ Reset
    \/ GetLevelOrdering
    \/ \E layer_name \in ArgNames, output_layer_name \in ArgNames :
           PropagateFrom(layer_name, output_layer_name)
    \/ \E save_all \in BOOLEAN : Save(save_all)
    \/ \E sizes \in ConstructArgs : Construct(sizes)
    \/ HandAdd
    \/ HandConnect
    \/ \E call \in StepCalls : Call(call)
    \/ Step
    \/ Returned
    \/ \E p \in Procs : CallBeside(p)
    \/ \E p \in Procs : StepBeside(p)
    \/ \E p \in Procs : ReturnedBeside(p)
    \/ Enter
    \/ Install
    \/ \E raises \in BOOLEAN : Body(raises)
    \/ ExitStep
    \/ HandlerStep
    \/ \E raises \in BOOLEAN : Sigint(raises)

Spec == Init /\ [][Next]_vars

\* The graph operations alone.
NextGraph ==
    \/ \E name \in ArgNames : Add(name)
    \/ \E args \in ConnectArgs : Connect(args[1], args[2])

SpecGraph == Init /\ [][NextGraph]_vars

\* The graph operations and the topological sort alone.
NextSort ==
    \/ \E name \in ArgNames : Add(name)
    \/ \E args \in ConnectArgs : Connect(args[1], args[2])
    \/ \E start \in StartLists : TopologicalSort(start)

SpecSort == Init /\ [][NextSort]_vars

\* The graph operations, compile and level assignment.
NextCompile ==
    \/ \E name \in ArgNames : Add(name)
    \/ \E args \in ConnectArgs : Connect(args[1], args[2])
    \/ Compile
    \/ Reset
    \/ GetLevelOrdering

SpecCompile == Init /\ [][NextCompile]_vars

\* The graph operations and the sub-graph cache.
NextCache ==
    \/ \E name \in ArgNames : Add(name)
    \/ \E args \in ConnectArgs : Connect(args[1], args[2])
    \/ \E layer_name \in ArgNames, output_layer_name \in ArgNames :
           PropagateFrom(layer_name, output_layer_name)

SpecCache == Init /\ [][NextCache]_vars

\* The graph operations, compile and the sub-graph cache.
NextRecompile ==
    \/ \E name \in ArgNames : Add(name)
    \/ \E args \in ConnectArgs : Connect(args[1], args[2])
    \/ Compile
    \/ Reset
    \/ \E layer_name \in ArgNames, output_layer_name \in ArgNames :
           PropagateFromBesideCompile(layer_name, output_layer_name)

SpecRecompile == Init /\ [][NextRecompile]_vars

\* The graph operations, compile and save.
NextSave ==
    \/ \E name \in ArgNames : Add(name)
    \/ \E args \in ConnectArgs : Connect(args[1], args[2])
    \/ Compile
    \/ \E save_all \in BOOLEAN : Save(save_all)

SpecSave == Init /\ [][NextSave]_vars

\* The graph operations, the sub-graph cache and save.
NextSaveCache ==
    \/ \E name \in ArgNames : Add(name)
    \/ \E args \in ConnectArgs : Connect(args[1], args[2])
    \/ \E layer_name \in ArgNames, output_layer_name \in ArgNames :
           PropagateFromBesideCompile(layer_name, output_layer_name)
    \/ \E save_all \in BOOLEAN : Save(save_all)

SpecSaveCache == Init /\ [][NextSaveCache]_vars

\* The graph operations on the networks of one more layer, and compile.
NextWide ==
    \/ \E name \in Names : Add(name)
    \/ \E args \in ConnectArgsWide : ConnectWide(args[1], args[2])
    \/ Compile

SpecWide == Init /\ [][NextWide]_vars

\* The constructor, and the same network made by hand.
NextConstructor ==
    \/ \E sizes \in ConstructArgs : Construct(sizes)
    \/ HandAdd
    \/ HandConnect

SpecConstructor == Init /\ [][NextConstructor]_vars

\* The graph operations and the calls of one thread, statement by statement.
NextStep ==
    \/ \E name \in ArgNames : AddBetween(name)
    \/ \E args \in ConnectArgs : ConnectBetween(args[1], args[2])
    \/ \E call \in StepCalls : Call(call)
    \/ Step
    \/ Returned

SpecStep == Init /\ [][NextStep]_vars

\* A call in flight goes on: nothing suspends it.
SpecStepFair == SpecStep /\ WF_vars(Step)

\* The graph operations and the sorts of two threads, statement by statement.
NextBeside ==
    \/ \E name \in ArgNames : AddBetween(name)
    \/ \E args \in ConnectArgs : ConnectBetween(args[1], args[2])
    \/ \E p \in Procs : CallBeside(p)
    \/ \E p \in Procs : StepBeside(p)
    \/ \E p \in Procs : ReturnedBeside(p)

SpecBeside == Init /\ [][NextBeside]_vars

\* The with-block of train and the signals.
NextInterrupt ==
    \/ Enter
    \/ Install
    \/ \E raises \in BOOLEAN : Body(raises)
    \/ ExitStep
    \/ HandlerStep
    \/ \E raises \in BOOLEAN : Sigint(raises)

SpecInterrupt == Init /\ [][NextInterrupt]_vars

----------------------------------------------------------------------------
\* The graph, as the claims speak of it

Edge(u, v) == v \in Range(outgoing_connections[u])

\* The least set that holds S and every layer an edge leads to from it.
RECURSIVE Closure(_)
Closure(S) ==
    LET T == S \cup {v \in Names : \E u \in S : Edge(u, v)}
    IN IF T = S THEN S ELSE Closure(T)

\* The layers reachable from u over one edge or more.
Descendants(u) == Closure({v \in Names : Edge(u, v)})

Acyclic == \A u \in Names : u \notin Descendants(u)

CompileReturned == ret.op \in {"compile", "reset"} /\ ret.ok /\ ret.handle # 0

----------------------------------------------------------------------------
\* C1: on an acyclic network, topological_sort returns each layer reachable
\* from the start layers (these included) exactly once and no other layer,
\* and places u before v for every edge u -> v between layers it returns.
C1_SortContract ==
    (ret.op = "topological_sort" /\ Acyclic) =>
        /\ Range(ret.seq) = Closure(Range(ret.arg))
        /\ Len(ret.seq) = Cardinality(Range(ret.seq))
        /\ \A i, j \in 1..Len(ret.seq) : Edge(ret.seq[i], ret.seq[j]) => i < j

\* A sort of three layers joined by three edges, from two start layers
\* listed against an edge.
C1_Witness ==
    /\ ret.op = "topological_sort"
    /\ Acyclic
    /\ Len(ret.seq) = 3
    /\ NumConnections = 3
    /\ Len(ret.arg) = 2
    /\ Edge(ret.arg[2], ret.arg[1])

\* A start layer without outgoing connections gives the list of itself.
C1_WitnessSingleton ==
    /\ ret.op = "topological_sort"
    /\ Len(ret.arg) = 1
    /\ outgoing_connections[ret.arg[1]] = <<>>
    /\ ret.seq = ret.arg

\* C2: a request for the pair that the call before asked for and got
\* returns the same Model again, runs no build, creates no engine object and
\* stores nothing in prop_from_dict.
C2_SecondRequestHitsCache ==
    [][(/\ ret.op = "propagate_from"
        /\ ret.ok
        /\ ret'.op = "propagate_from"
        /\ ret'.a = ret.a
        /\ ret'.b = ret.b)
       => (/\ ret'.ok
           /\ ret'.handle = ret.handle
           /\ prop_from_dict' = prop_from_dict
           /\ nbuilds' = nbuilds
           /\ next_id' = next_id)]_vars

\* The second of two requests for one pair of distinct layers, the first of
\* which built it.
C2_Witness ==
    /\ ret.op = "propagate_from"
    /\ ret.again
    /\ ret.ok
    /\ ret.a # ret.b
    /\ nbuilds = 1
    /\ ret.handle = prop_from_dict[<<ret.a, ret.b>>].id

\* C3: after a build from start s on an acyclic network, the Model stored
\* under (s, n), for n reachable from s with all its incoming layers among s
\* and the layers reachable from s, has as output n's transformation applied
\* to the outputs of the Models stored under (s, p), p the incoming layers.
C3_HandleComposesParents ==
    (ret.op = "propagate_from" /\ ret.built /\ Acyclic) =>
        \A n \in Descendants(ret.a) :
            LET inc == incoming_connections[n]
                h == prop_from_dict[<<ret.a, n>>]
            IN (\A i \in 1..Len(inc) : inc[i] \in Descendants(ret.a) \cup {ret.a})
               => /\ h # NoModel
                  /\ h.outputs[1].op = n
                  /\ h.outputs[1].args =
                         [i \in 1..Len(inc) |->
                             prop_from_dict[<<ret.a, inc[i]>>].outputs[1].id]

\* C4: a request that raises leaves prop_from_dict as it was.
C4_FailedRequestLeavesCache ==
    [][(ret'.op = "propagate_from" /\ ~ret'.ok)
       => prop_from_dict' = prop_from_dict]_vars

\* C5: right after an add or a connect that returned, the network is not
\* compiled (self.model is None).
C5_MutationInvalidatesCompile ==
    (ret.op \in {"add", "connect", "connect_all"} /\ ret.ok) => model = NoModel

\* C6: right after a compile of a network that was compiled before,
\* prop_from_dict is empty.
C6_RecompileEmptiesCache ==
    (CompileReturned /\ ret.re) =>
        \A key \in Names \X Names : prop_from_dict[key] = NoModel

\* C7: the full model built by compile has as inputs the tensors of the
\* layers of input_bank_order, one for one and in that order.
C7_ModelInputsFollowBankOrder ==
    (CompileReturned /\ Len(input_bank_order) >= 1) =>
        model.inputs = [i \in 1..Len(input_bank_order) |-> k[input_bank_order[i]].id]

\* C8: after a compile that returned, input_bank_order is the layers without
\* incoming connections and output_bank_order the layers without outgoing
\* connections, each in the order of self.layers.
C8_BankOrders ==
    CompileReturned =>
        /\ input_bank_order =
               SelectSeq(layers, LAMBDA n : incoming_connections[n] = <<>>)
        /\ output_bank_order =
               SelectSeq(layers, LAMBDA n : outgoing_connections[n] = <<>>)

\* A compile of two input layers that were connected to their common target
\* in the order opposite to the one they were added in.
C8_Witness ==
    /\ CompileReturned
    /\ Len(input_bank_order) = 2
    /\ \E n \in Names :
           incoming_connections[n] = <<input_bank_order[2], input_bank_order[1]>>

\* The input names the claim gives a layer, from those of its parents.
C9_Expected(layer) ==
    LET inc == incoming_connections[layer]
    IN IF inc = <<>> THEN <<layer>>
       ELSE IF Len(inc) = 1 THEN input_names[inc[1]]
       ELSE Flatten([i \in 1..Len(inc) |-> input_names[inc[i]]])

\* C9: after a compile that returned, of a network with an output layer, the
\* input_names of a layer are its own
\* name (an input layer), those of its parent (one incoming connection) or
\* the parents' input_names concatenated in incoming-connection order.
C9_InputNames ==
    (CompileReturned /\ output_bank_order # <<>>) =>
        \A i \in 1..Len(layers) : input_names[layers[i]] = C9_Expected(layers[i])

\* C9 on the networks without a cycle.
C9_InputNamesAcyclic ==
    (CompileReturned /\ Acyclic) =>
        \A i \in 1..Len(layers) : input_names[layers[i]] = C9_Expected(layers[i])

\* C10: in the level map of a compiled acyclic network, a layer's level is
\* above the level of each of its parents, and a layer without incoming
\* connections has level 0.
C10_Levels ==
    (ret.op = "get_level_ordering" /\ ret.ok /\ model # NoModel /\ Acyclic) =>
        /\ \A u, v \in Range(layers) : Edge(u, v) => ret.levels[v] > ret.levels[u]
        /\ \A u \in Range(layers) :
               incoming_connections[u] = <<>> => ret.levels[u] = 0

\* The levels of a compiled chain of three layers whose first layer is also
\* connected to the last.
C10_Witness ==
    /\ ret.op = "get_level_ordering"
    /\ ret.ok
    /\ model # NoModel
    /\ Acyclic
    /\ \E u, v, w \in Range(layers) :
           /\ Edge(u, v) /\ Edge(v, w) /\ Edge(u, w)
           /\ ret.levels[u] = 0 /\ ret.levels[v] = 1 /\ ret.levels[w] = 2

\* C11: the connection graph never holds a cycle: a connect whose target is
\* its source or an ancestor of its source adds no edge.
C11_GraphStaysAcyclic == Acyclic

\* C12: an add of a registered name raises and leaves layers and layer_dict
\* as they were, any other add appends the new name to layers and registers
\* it; so the names of layers are pairwise distinct and layer_dict holds
\* exactly them.
C12_AddContract ==
    /\ [](/\ Len(layers) = Cardinality(Range(layers))
          /\ layer_dict = Range(layers))
    /\ [][ret'.op = "add" =>
            IF ret'.ok
            THEN \E name \in Names \ layer_dict :
                    /\ layers' = Append(layers, name)
                    /\ layer_dict' = layer_dict \cup {name}
            ELSE UNCHANGED <<layers, layer_dict>>]_vars

\* An add that raised, on a network of two layers or more.
C12_Witness ==
    /\ ret.op = "add"
    /\ ~ret.ok
    /\ Len(layers) >= 2

\* C13: a connect raises only with a name that is not registered and then
\* changes no connection list, and every connection made joins two registered
\* layers.
C13_UnknownNameRejected ==
    /\ [](\A u, v \in Names : Edge(u, v) => (u \in layer_dict /\ v \in layer_dict))
    /\ []((ret.op = "connect" /\ ~ret.ok) =>
              (ret.a \notin layer_dict \/ ret.b \notin layer_dict))
    /\ [][(ret'.op = "connect" /\ ~ret'.ok) =>
              UNCHANGED <<incoming_connections, outgoing_connections>>]_vars

\* A connect that raised on its second name only, the first being a layer
\* that has a connection already.
C13_Witness ==
    /\ ret.op = "connect"
    /\ ~ret.ok
    /\ ret.a \in layer_dict
    /\ ret.b \notin layer_dict
    /\ outgoing_connections[ret.a] # <<>>

\* C14: no layer occurs twice in a layer's outgoing connections or in a
\* layer's incoming connections.
C14_ConnectionsAreSets ==
    \A n \in Names :
        /\ Len(outgoing_connections[n]) = Cardinality(Range(outgoing_connections[n]))
        /\ Len(incoming_connections[n]) = Cardinality(Range(incoming_connections[n]))

\* The layer added right after layer n, as a list; empty for the last layer
\* and for a name that is not in layers.
C15_After(n) ==
    IF \E i \in 1..(Len(layers) - 1) : layers[i] = n
    THEN <<layers[(CHOOSE i \in 1..(Len(layers) - 1) : layers[i] = n) + 1]>>
    ELSE <<>>

\* The layer added right before layer n, as a list.
C15_Before(n) ==
    IF \E i \in 2..Len(layers) : layers[i] = n
    THEN <<layers[(CHOOSE i \in 2..Len(layers) : layers[i] = n) - 1]>>
    ELSE <<>>

\* C15: connect() without arguments adds to each layer but the last the
\* connection to the layer added right after it, and nothing else; on a
\* network of one layer or none it changes nothing.
C15_ConnectAllMakesChain ==
    [][ret'.op = "connect_all" =>
          /\ outgoing_connections' =
                 [n \in Names |-> outgoing_connections[n] \o C15_After(n)]
          /\ incoming_connections' =
                 [n \in Names |-> incoming_connections[n] \o C15_Before(n)]
          /\ Len(layers) <= 1 => UNCHANGED graph_vars]_vars

\* A connect() on three layers, one connection having been made before.
C15_Witness ==
    /\ ret.op = "connect_all"
    /\ Len(layers) = 3
    /\ NumConnections = 3
    /\ Edge(layers[1], layers[2])
    /\ Edge(layers[2], layers[3])

\* C16: a compile of a network without layers, or with a layer that has
\* neither incoming nor outgoing connections, raises and leaves the model,
\* the two bank orders and every layer's tensor and Model as they were.
C16_RejectedCompileChangesNothing ==
    [][(/\ ret'.op = "compile"
        /\ \/ Len(layers) = 0
           \/ \E i \in 1..Len(layers) :
                  /\ incoming_connections[layers[i]] = <<>>
                  /\ outgoing_connections[layers[i]] = <<>>)
       => (/\ ~ret'.ok
           /\ UNCHANGED <<model, input_bank_order, output_bank_order, k,
                          layer_model>>)]_vars

\* A compile that raised on a compiled network to which a layer was added
\* and not connected.
C16_Witness ==
    /\ ret.op = "compile"
    /\ ~ret.ok
    /\ model # NoModel
    /\ input_bank_order # <<>>
    /\ \E i \in 1..Len(layers) :
           /\ incoming_connections[layers[i]] = <<>>
           /\ outgoing_connections[layers[i]] = <<>>

\* A compile that raised on a network without layers.
C16_WitnessEmpty ==
    /\ ret.op = "compile"
    /\ ~ret.ok
    /\ layers = <<>>

\* C17: after a compile of a network of one layer and no connection, that
\* layer is the input bank order and the output bank order.
C17_SingleLayerInBothBanks ==
    (ret.op = "compile" /\ Len(layers) = 1 /\ NumConnections = 0) =>
        /\ input_bank_order = layers
        /\ output_bank_order = layers

\* C18: a propagate_from whose start name or end name is not a layer raises
\* before a build runs.
C18_UnknownNamesRaiseBeforeBuild ==
    (/\ ret.op = "propagate_from"
     /\ (ret.a \notin layer_dict \/ ret.b \notin layer_dict))
    => (~ret.ok /\ ~ret.built)

\* C19: a Model stored in prop_from_dict is never replaced, and once a
\* build from start s has run, a request (s, x) for x = s or x reachable from
\* s runs no build and returns the Model stored under (s, x).
C19_CacheAnswersLaterRequests ==
    [][/\ \A key \in Names \X Names :
              prop_from_dict[key] # NoModel => prop_from_dict'[key] = prop_from_dict[key]
       /\ (/\ ret'.op = "propagate_from"
           /\ ret'.a \in layer_dict
           /\ prop_from_dict[<<ret'.a, ret'.a>>] # NoModel
           /\ (ret'.b = ret'.a \/ ret'.b \in Descendants(ret'.a)))
          => (/\ ~ret'.built
              /\ ret'.ok
              /\ ret'.handle = prop_from_dict[<<ret'.a, ret'.b>>].id)]_vars

\* C20: a compile that directly follows a compile leaves input_bank_order
\* and output_bank_order as they were.
C20_BankOrdersIdempotent ==
    [][(ret.op = "compile" /\ ret'.op = "compile") =>
          UNCHANGED <<input_bank_order, output_bank_order>>]_vars

\* The second of two compiles in a row, of a network with two input layers.
C20_Witness ==
    /\ ret.op = "compile"
    /\ ret.again
    /\ ret.ok
    /\ ncompiles = 2
    /\ Len(input_bank_order) = 2

\* The paths to layer n from a layer without incoming connections, as the
\* lists of their layers.
C24_Paths(n) ==
    {p \in UNION {[1..m -> Range(layers)] : m \in 1..Len(layers)} :
        /\ p[Len(p)] = n
        /\ incoming_connections[p[1]] = <<>>
        /\ \A i \in 1..(Len(p) - 1) : Edge(p[i], p[i + 1])}

\* The number of edges of the longest of these paths.
C24_LongestPath(n) == Max({Len(p) - 1 : p \in C24_Paths(n)})

\* C24: on an acyclic network, the pass over the topological order finds the
\* level of every parent assigned when it comes to a layer, and gives each
\* layer the number of edges of the longest path to it from a layer without
\* incoming connections; these are the levels _get_level_ordering works with
\* on a compiled network.
C24_LevelsAreLongestPaths ==
    Acyclic =>
        /\ LET lv == assign_levels([levels |-> NoLevels, ok |-> TRUE],
                                   topological_sort(layers).stack, 1)
           IN /\ lv.ok
              /\ \A n \in Range(layers) : lv.levels[n] = C24_LongestPath(n)
        /\ (ret.op = "get_level_ordering" /\ ret.ok /\ model # NoModel) =>
               \A n \in Range(layers) : ret.levels[n] = C24_LongestPath(n)

\* The levels of a compiled network with a layer that two paths of
\* different lengths lead to.
C24_Witness ==
    /\ ret.op = "get_level_ordering"
    /\ ret.ok
    /\ model # NoModel
    /\ Acyclic
    /\ \E n \in Range(layers) :
           /\ Cardinality({Len(p) : p \in C24_Paths(n)}) = 2
           /\ ret.levels[n] = 2

\* C26: every key (s, e) of prop_from_dict names two registered layers with
\* e = s or e reachable from s, and right after a build from s the keys with
\* first component s are (s, s) and (s, x) for the layers x reachable from s.
C26_CacheKeys ==
    /\ \A s, e \in Names :
           prop_from_dict[<<s, e>>] # NoModel =>
               /\ s \in layer_dict
               /\ e \in layer_dict
               /\ (e = s \/ e \in Descendants(s))
    /\ (ret.op = "propagate_from" /\ ret.built) =>
           {e \in Names : prop_from_dict[<<ret.a, e>>] # NoModel}
               = {ret.a} \cup Descendants(ret.a)

\* A build from a layer that reaches one layer and does not reach another.
C26_Witness ==
    /\ ret.op = "propagate_from"
    /\ ret.built
    /\ Len(layers) = 3
    /\ Cardinality(Descendants(ret.a) \ {ret.a}) = 1
    /\ \E s \in Names \ {ret.a} : prop_from_dict[<<s, s>>] # NoModel

\* The layers that layer n is reachable from over one edge or more.
Ancestors(n) == {u \in Names : n \in Descendants(u)}

\* The input layers among the ancestors of n; n itself for an input layer.
C27_InputAncestors(n) ==
    {u \in Ancestors(n) \cup {n} : incoming_connections[u] = <<>>}

\* C27: after a compile that returned, every name in a layer's input_names
\* is in input_bank_order, and the names are those of the input layers among
\* the layer's ancestors (of the layer itself for an input layer).
C27_InputNamesAreInputAncestors ==
    CompileReturned =>
        \A i \in 1..Len(layers) :
            /\ Range(input_names[layers[i]]) \subseteq Range(input_bank_order)
            /\ Range(input_names[layers[i]]) = C27_InputAncestors(layers[i])

\* On a network without a cycle the names are as C27 says.
C27_InputNamesAcyclic ==
    (CompileReturned /\ Acyclic) =>
        \A i \in 1..Len(layers) :
            /\ Range(input_names[layers[i]]) \subseteq Range(input_bank_order)
            /\ Range(input_names[layers[i]]) = C27_InputAncestors(layers[i])

\* A compile of two input layers with a common target.
C27_Witness ==
    /\ CompileReturned
    /\ \E n \in Range(layers) :
           /\ Cardinality(C27_InputAncestors(n)) = 2
           /\ Len(input_names[n]) = 2

\* The number of times x occurs in list s.
Count(s, x) == Cardinality({i \in 1..Len(s) : s[i] = x})

\* C28: v occurs in u's outgoing connections as often as u occurs in v's
\* incoming connections, and every connection joins registered layers.
C28_AdjacencySymmetric ==
    \A u, v \in Names :
        /\ Count(outgoing_connections[u], v) = Count(incoming_connections[v], u)
        /\ Edge(u, v) => (u \in layer_dict /\ v \in layer_dict)

\* A connection made twice, and one more.
C28_Witness ==
    /\ NumConnections = 3
    /\ \E u, v \in Names : Count(outgoing_connections[u], v) = 2

\* C29: for a compiled acyclic network the rows of _get_level_ordering are
\* rows 0..max_level, row i holds exactly the layers of level i, every layer
\* is in exactly one row, and no row is empty.
C29_RowsPartitionLayers ==
    (ret.op = "get_level_ordering" /\ ret.ok /\ model # NoModel /\ Acyclic) =>
        /\ Len(ret.rows) = Max({ret.levels[n] : n \in Range(layers)}) + 1
        /\ \A i \in 1..Len(ret.rows) :
               /\ ret.rows[i] # <<>>
               /\ Range(ret.rows[i]) = {n \in Range(layers) : ret.levels[n] = i - 1}
               /\ Len(ret.rows[i]) = Cardinality(Range(ret.rows[i]))
        /\ \A n \in Range(layers) :
               Cardinality({i \in 1..Len(ret.rows) : n \in Range(ret.rows[i])}) = 1

\* The rows of a compiled network with two layers in one row and one layer
\* in the other.
C29_Witness ==
    /\ ret.op = "get_level_ordering"
    /\ ret.ok
    /\ model # NoModel
    /\ Acyclic
    /\ Len(ret.rows) = 2
    /\ \E i \in 1..2 : Len(ret.rows[i]) = 2

\* C22: what save hands to pickle.dump holds no handle: self.model is None,
\* no layer holds a tensor or a Model, and prop_from_dict holds no Model.
C22_DumpHoldsNoHandle ==
    ret.op = "save" =>
        /\ ret.dump.model = 0
        /\ ret.dump.layer_handles = {}
        /\ ret.dump.cache_keys = {}

\* C22 for the cache alone (under SpecSaveCache): what save hands to
\* pickle.dump holds no Model of prop_from_dict.
C22_DumpHoldsNoCachedHandle ==
    ret.op = "save" => ret.dump.cache_keys = {}

\* C22 for a save with save_all = True of a network that has a model, where
\* no sub-graph was built.
C22_DumpOfCompiledSaveAll ==
    (/\ ret.op = "save"
     /\ ret.dump.save_all
     /\ model # NoModel
     /\ ret.dump.cache_keys = {}) =>
        /\ ret.dump.model = 0
        /\ ret.dump.layer_handles = {}

\* The names of a layer list, in order.
C21_Names(net) == [i \in 1..Len(net.layers) |-> net.layers[i].name]

\* C21: Network(name, s0, ..., s(n-1)) has the same layers, in the same
\* order, and the same connection lists as the network made by adding the
\* layers autoname(0, n) .. autoname(n-1, n) by hand and calling connect();
\* the n generated names are pairwise distinct, and no add of the
\* constructor raises.
C21_ConstructorIsAddsAndConnect ==
    /\ nets.pc # "none" =>
          LET n == Len(nets.sizes)
          IN /\ Cardinality({autoname(i, n) : i \in 0..(n - 1)}) = n
             /\ ~nets.built.raised
             /\ C21_Names(nets.built) = [i \in 1..n |-> autoname(i - 1, n)]
    /\ nets.pc = "done" =>
          /\ ~nets.hand.raised
          /\ nets.built.layers = nets.hand.layers
          /\ nets.built.layer_dict = nets.hand.layer_dict
          /\ nets.built.outgoing_connections = nets.hand.outgoing_connections
          /\ nets.built.incoming_connections = nets.hand.incoming_connections

\* C21 witness: a network of MaxSizes layers was made both ways; it has the
\* layers hidden1 and hidden10, and a connection from hidden1 to hidden2.
C21_Witness ==
    /\ nets.pc = "done"
    /\ Len(nets.sizes) = MaxSizes
    /\ Chars_hidden \o <<"1">> \in nets.built.layer_dict
    /\ Chars_hidden \o <<"1", "0">> \in nets.built.layer_dict
    /\ nets.hand.outgoing_connections[Chars_hidden \o <<"1">>]
           = <<Chars_hidden \o <<"2">>>>

\* In the call of the one thread, visit was called at most once on every
\* layer, the frames of visit are at most as many as the layers, the stack
\* and the list returned hold no layer twice, and the caller's loop came to
\* every layer at most once.
C23_AtMostOnce ==
    LET s == sorters[1]
    IN /\ \A n \in Names : s.visits[n] <= 1 /\ s.touched[n] <= 1
       /\ Len(s.frames) <= Len(layers)
       /\ \A n \in Names : Count(s.stack, n) <= 1 /\ Count(s.result, n) <= 1
       /\ Range(s.result) \subseteq Range(layers)

\* C23: on every network made by add and connect, a call of
\* topological_sort, of the build pass of compile, of level assignment or of
\* the sub-graph build of propagate_from visits each layer at most once, and
\* once begun it finishes.
C23_Terminates ==
    /\ []C23_AtMostOnce
    /\ (InFlight(1) ~> sorters[1].pc = "done")

\* C23 witness: the build pass finished without raising on a network of
\* three layers with a cycle, having visited every layer once.
C23_Witness ==
    /\ sorters[1].pc = "done"
    /\ sorters[1].op = "build"
    /\ ~sorters[1].raised
    /\ ~Acyclic
    /\ Len(layers) = MaxLayers
    /\ \A n \in Range(layers) :
           sorters[1].visits[n] = 1 /\ sorters[1].touched[n] = 1

\* The layers that can be reached from the layers of the list start.
C25_Reachable(start) == Closure(Range(start))

\* C25: a call of topological_sort that ran with no other call in flight
\* returns what the sort returns on the network as it is, whatever marks
\* the calls before it left: each reachable layer once.
C25_SerializedSortKeepsContract ==
    \A p \in Procs :
        (sorters[p].pc = "done" /\ sorters[p].alone) =>
            /\ sorters[p].result = topological_sort(sorters[p].start).stack
            /\ Range(sorters[p].result) = C25_Reachable(sorters[p].start)
            /\ \A n \in Names : Count(sorters[p].result, n) <= 1

\* C25 witness: two calls ran interleaved; one returned a list without a
\* layer that can be reached from its start layers, the other a list that
\* holds a layer twice.
C25_Witness ==
    \E p, q \in Procs :
        /\ sorters[p].pc = "done" /\ ~sorters[p].alone
        /\ sorters[q].pc = "done" /\ ~sorters[q].alone
        /\ C25_Reachable(sorters[p].start) \ Range(sorters[p].result) # {}
        /\ \E n \in Names : Count(sorters[q].result, n) = 2

\* A call that ran alone returned after marks were left by a call before it.
C25_WitnessSerialized ==
    /\ nsorts = 2
    /\ sorters[1].pc = "done" /\ sorters[1].alone
    /\ Idle(2)
    /\ Len(sorters[1].result) = MaxLayers

\* C30: in one with-block the original handler is restored by exactly one
\* call of signal.signal, and a later _release makes no further call; once
\* the function handler has handled a SIGINT and set interrupted, the
\* original handler is the installed one, and so it is however the block is
\* left.
C30_RestoresExactlyOnce ==
    /\ interrupt.restores <= 1
    /\ interrupt.interrupted =>
           (interrupt.by_handler >= 1 /\ interrupt.installed = "original")
    /\ (interrupt.pc = "left" /\ interrupt.entered) =>
           (interrupt.restores = 1 /\ interrupt.installed = "original")

\* However the with statement is left, the original handler is installed,
\* and a block that was entered restored it at least once.
C30_OriginalInstalledOnExit ==
    interrupt.pc = "left" =>
        /\ interrupt.installed = "original"
        /\ interrupt.entered => interrupt.restores >= 1

====
